---- MODULE Spec2Model ----
(***************************************************************************)
(* Scroll-bound view transition controller of the scrollytelling charts.   *)
(*                                                                         *)
(* Two chart classes carry the controller:                                 *)
(*   DotMapPlot  (dot plot <-> map,     transition card data-step 4)       *)
(*   MapDotPlot  (map     <-> scatter,  transition card data-step 2)       *)
(* The charts share no state, so one chart instance is modelled at a time; *)
(* Init chooses which class it is.                                         *)
(*                                                                         *)
(* Numbers.  A progress value p in [0,1] is kept as the integer numerator  *)
(* n of p = n / ProgressDen.  Interpolated attributes are kept multiplied  *)
(* by ProgressDen, so d3.interpolate(a, b)(p) = a*(1-p) + b*p is the exact *)
(* integer a*(ProgressDen-n) + b*n.  Lengths are in px, radii in tenths of *)
(* a px, opacities and stroke widths in hundredths.  Fill colours are RGB  *)
(* triples with integer channels, as d3's colour interpolator rounds them. *)
(*                                                                         *)
(* The timed d3 transitions on the dots (updateColors, highlightTypeByStep) *)
(* are kept as a pending target that a later timer step writes.            *)
(*                                                                         *)
(* Specifications.                                                         *)
(*   Spec         the page of main.js: one observer entry at a time        *)
(*   SpecBatch    the page of main.js: whole callbacks, entries in order   *)
(*   SpecTracked  the page that tracks its current step (batches, 0.3)     *)
(*   SpecApi      the controller's methods called in any order             *)
(*   SpecCalc     calculateScrollProgress for any window and card position *)
(*   SpecInterp   setTransitionProgress for any direction and progress     *)
(***************************************************************************)
EXTENDS Integers, FiniteSets, Sequences, TLC

VARIABLES
    chart,            \* which class this instance is: "dotmap" | "mapdot"
    scrollY,          \* page scroll offset (layout input of getBoundingClientRect)
    plot,             \* fields of the chart object
    surface,          \* SVG attributes and styles of the render surface
    frames,           \* handles of the requestAnimationFrame callbacks still pending
    dotsTransition,   \* pending d3 transition on this.dots: {} or {target}
    activeStep,       \* data-step of the card carrying class "active"
    lastOp,           \* history: the operation that produced this state
    currentStep,      \* currentDotmapStep / currentMapdotStep of the tracking page
    probe             \* arguments and result of a method called on its own

vars == <<chart, scrollY, plot, surface, frames, dotsTransition, activeStep,
          lastOp, currentStep, probe>>

----------------------------------------------------------------------------
(* Bounds and environment                                                  *)

MaxScroll == 8
MaxStep == 6

ViewportHeight == 10

NoCard == -1
NoFrame == 0
NoStep == -1

Steps == 0..MaxStep
Points == {1, 2}

Max(a, b) == IF a >= b THEN a ELSE b
Min(a, b) == IF a <= b THEN a ELSE b

\* data-step of the card that drives the scroll-bound transition
TransitionStep == IF chart = "dotmap" THEN 4 ELSE 2

\* A card is identified by its data-step.  getBoundingClientRect().top of a
\* card: cards follow each other down the page, and the scroll range takes
\* the transition card from below the start line to above the end line.
CardTop(card) == (MaxScroll + 1) + (card - TransitionStep) * 3 - scrollY

\* direction strings of the two classes
ForwardDirection == IF chart = "dotmap" THEN "toMap" ELSE "toScatter"
ReverseDirection == IF chart = "dotmap" THEN "toDotPlot" ELSE "toMap"
Directions == {ForwardDirection, ReverseDirection}

----------------------------------------------------------------------------
(* Progress calculator                                                     *)

\* viewportHeight * 0.8 and viewportHeight * 0.2, both times 10
StartY10 == 8 * ViewportHeight
EndY10 == 2 * ViewportHeight

\* denominator of every progress value of the model
ProgressDen == StartY10 - EndY10

Clamp_None(n) == n

\* Math.max(0, Math.min(1, progress))
Clamp(n) == Max(0, Min(ProgressDen, n))

\* the literal progress arguments 0 and 1 of the callers
Progress(k) == k * ProgressDen

\* A JavaScript number of the progress computation: an exact fraction n / d
\* with d > 0, or one of the values a division by zero produces.
Num(n, d) == [kind |-> "num", n |-> n, d |-> d]
NaN == [kind |-> "NaN", n |-> 0, d |-> 1]
PosInfinity == [kind |-> "+Infinity", n |-> 1, d |-> 1]
NegInfinity == [kind |-> "-Infinity", n |-> -1, d |-> 1]

\* a / b of two finite numbers
Divide(a, b) ==
    IF b > 0 THEN Num(a, b)
    ELSE IF b < 0 THEN Num(-a, -b)
    ELSE IF a > 0 THEN PosInfinity
    ELSE IF a < 0 THEN NegInfinity
    ELSE NaN

\* Math.min(1, x)
MathMinOne(x) ==
    IF x.kind = "NaN" THEN NaN
    ELSE IF x.kind = "+Infinity" THEN Num(1, 1)
    ELSE IF x.kind = "-Infinity" THEN NegInfinity
    ELSE IF x.n > x.d THEN Num(1, 1) ELSE x

\* Math.max(0, x)
MathMaxZero(x) ==
    IF x.kind = "NaN" THEN NaN
    ELSE IF x.kind = "-Infinity" THEN Num(0, 1)
    ELSE IF x.kind = "+Infinity" THEN PosInfinity
    ELSE IF x.n < 0 THEN Num(0, 1) ELSE x

ScrollProgress_Unclamped(viewportHeight, top10) ==
    Divide(8 * viewportHeight - top10, 8 * viewportHeight - 2 * viewportHeight)

ScrollProgress_FromEndLine(viewportHeight, top10) ==
    MathMaxZero(MathMinOne(
        Divide(2 * viewportHeight - top10,
               8 * viewportHeight - 2 * viewportHeight)))

\* calculateScrollProgress for a window of the given innerHeight (px) and a
\* card whose rect.top is top10 / 10 px; startY and endY are kept times 10
ScrollProgress(viewportHeight, top10) ==
    LET startY == 8 * viewportHeight
        endY == 2 * viewportHeight
        progress == Divide(startY - top10, startY - endY)
    IN MathMaxZero(MathMinOne(progress))

\* the same for a card of the page, as a numerator over ProgressDen
CalculateScrollProgress(card) ==
    LET progress == ScrollProgress(ViewportHeight, 10 * CardTop(card))
    IN (progress.n * ProgressDen) \div progress.d

----------------------------------------------------------------------------
(* Data points and scales                                                  *)

\* DotMapPlot: strikes.  Point 1 has a feature in geoData, point 2 has none.
HasGeoFeature(p) == p = 1
DotPlotX(p) == IF p = 1 THEN 10 ELSE 30
DotPlotY(p) == IF p = 1 THEN 40 ELSE 20
StrikeGeoX(p) == 50
StrikeGeoY(p) == 15
President(p) == IF p = 1 THEN "Biden" ELSE "Trump II"
Country(p) == IF p = 1 THEN "Yemen" ELSE "Venezuela"

\* MapDotPlot: trade deals.
DealMapX(p) == IF p = 1 THEN 12 ELSE 44
DealMapY(p) == IF p = 1 THEN 31 ELSE 17
ScatterX(p) == IF p = 1 THEN 25 ELSE 35
ScatterY(p) == IF p = 1 THEN 5 ELSE 45
DealType(p) == IF p = 1 THEN "Tariff and market access" ELSE "Economic security"

\* DotMapPlot.toggleView: this.xScale(d.week).  week is the CSV's string
\* column, not a date: the time scale has no value for it, so the
\* transition removes the cx attribute.
NoAttribute == -1
WeekX(p) == NoAttribute

Gray59 == <<89, 89, 89>>
GrayC6 == <<198, 198, 198>>
Blue == <<29, 57, 86>>
Red == <<223, 49, 68>>

\* MapDotPlot.colorScale(type), DotMapPlot.colorScale(President)
TypeColor(type) == IF type = "Tariff and market access" THEN Blue ELSE Red
PresidentColor(president) == IF president = "Biden" THEN Blue ELSE Red

\* d3.interpolate(a, b)(n / ProgressDen), times ProgressDen
Lerp(a, b, n) == a * (ProgressDen - n) + b * n

\* a value written without interpolation, in the same scale
Exact(a) == a * ProgressDen

\* d3.interpolateRgb: each channel interpolated, then rounded to an integer
LerpChannel(a, b, n) == (2 * Lerp(a, b, n) + ProgressDen) \div (2 * ProgressDen)
LerpRgb(c1, c2, n) == [i \in 1..3 |-> LerpChannel(c1[i], c2[i], n)]

----------------------------------------------------------------------------
(* The state threaded through a handler                                    *)

State == [plot |-> plot, surface |-> surface, frames |-> frames,
          dotsTransition |-> dotsTransition, activeStep |-> activeStep]

Commit(s) ==
    /\ plot' = s.plot
    /\ surface' = s.surface
    /\ frames' = s.frames
    /\ dotsTransition' = s.dotsTransition
    /\ activeStep' = s.activeStep

----------------------------------------------------------------------------
(* Transition interpolator                                                 *)

DotMapSetTransitionProgress(s, toMap, progress) ==
    LET n == Clamp(progress) IN
    IF toMap
    THEN [s EXCEPT !.surface =
            [@ EXCEPT
               !.cx = [p \in Points |->
                          IF HasGeoFeature(p)
                          THEN Lerp(DotPlotX(p), StrikeGeoX(p), n)
                          ELSE Exact(DotPlotX(p))],
               !.cy = [p \in Points |->
                          IF HasGeoFeature(p)
                          THEN Lerp(DotPlotY(p), StrikeGeoY(p), n)
                          ELSE Exact(DotPlotY(p))],
               !.r = [p \in Points |-> Exact(25)],
               !.strokeWidth = Exact(0),
               !.opacity = [p \in Points |->
                          IF HasGeoFeature(p)
                          THEN Lerp(100, 33, n)
                          ELSE Lerp(100, 0, n)],
               !.axesOpacity = 100 * (ProgressDen - n),
               !.mapOpacity = 100 * n]]
    ELSE [s EXCEPT !.surface =
            [@ EXCEPT
               !.cx = [p \in Points |->
                          IF HasGeoFeature(p)
                          THEN Lerp(StrikeGeoX(p), DotPlotX(p), n)
                          ELSE Exact(DotPlotX(p))],
               !.cy = [p \in Points |->
                          IF HasGeoFeature(p)
                          THEN Lerp(StrikeGeoY(p), DotPlotY(p), n)
                          ELSE Exact(DotPlotY(p))],
               !.r = [p \in Points |-> Exact(25)],
               !.opacity = [p \in Points |->
                          IF HasGeoFeature(p)
                          THEN Lerp(33, 100, n)
                          ELSE Lerp(0, 100, n)],
               !.axesOpacity = 100 * n,
               !.mapOpacity = 100 * (ProgressDen - n)]]

MapDotSetTransitionProgress(s, isScatter, progress) ==
    LET n == Clamp(progress)
        flagged == [s EXCEPT !.plot.isScatterView = isScatter]
    IN
    IF isScatter
    THEN [flagged EXCEPT !.surface =
            [@ EXCEPT
               !.cx = [p \in Points |-> Lerp(DealMapX(p), ScatterX(p), n)],
               !.cy = [p \in Points |-> Lerp(DealMapY(p), ScatterY(p), n)],
               !.r = [p \in Points |-> Lerp(60, 80, n)],
               !.fill = [p \in Points |->
                           LerpRgb(Gray59, TypeColor(DealType(p)), n)],
               !.opacity = [p \in Points |-> Exact(100)],
               !.mapOpacity = 100 * (ProgressDen - n),
               !.axesOpacity = 100 * n,
               !.legendOpacity = 100 * n,
               !.dotsPointerEvents =
                   IF 2 * n > ProgressDen THEN "auto" ELSE @,
               !.countriesPointerEvents =
                   IF 2 * n > ProgressDen THEN "none" ELSE @]]
    ELSE [flagged EXCEPT !.surface =
            [@ EXCEPT
               !.cx = [p \in Points |-> Lerp(ScatterX(p), DealMapX(p), n)],
               !.cy = [p \in Points |-> Lerp(ScatterY(p), DealMapY(p), n)],
               !.r = [p \in Points |-> Lerp(80, 60, n)],
               !.fill = [p \in Points |->
                           LerpRgb(TypeColor(DealType(p)), Gray59, n)],
               !.opacity = [p \in Points |-> Exact(100)],
               !.mapOpacity = 100 * n,
               !.axesOpacity = 100 * (ProgressDen - n),
               !.legendOpacity = 100 * (ProgressDen - n),
               !.dotsPointerEvents =
                   IF 2 * n > ProgressDen THEN "none" ELSE @,
               !.countriesPointerEvents =
                   IF 2 * n > ProgressDen THEN "auto" ELSE @]]

SetTransitionProgress_OverlaysNotMirrored(s, flag, progress) ==
    LET t == IF chart = "dotmap"
             THEN DotMapSetTransitionProgress(s, flag, progress)
             ELSE MapDotSetTransitionProgress(s, flag, progress)
        f == IF chart = "dotmap"
             THEN DotMapSetTransitionProgress(s, TRUE, progress)
             ELSE MapDotSetTransitionProgress(s, TRUE, progress)
    IN IF flag THEN t
       ELSE [t EXCEPT !.surface.mapOpacity = f.surface.mapOpacity,
                      !.surface.axesOpacity = f.surface.axesOpacity]

SetTransitionProgress_AxesKept(s, flag, progress) ==
    LET t == IF chart = "dotmap"
             THEN DotMapSetTransitionProgress(s, flag, progress)
             ELSE MapDotSetTransitionProgress(s, flag, progress)
    IN [t EXCEPT !.surface.axesOpacity = s.surface.axesOpacity]

SetTransitionProgress_NoFeatureToOrigin(s, flag, progress) ==
    LET t == IF chart = "dotmap"
             THEN DotMapSetTransitionProgress(s, flag, progress)
             ELSE MapDotSetTransitionProgress(s, flag, progress)
    IN IF chart = "dotmap" /\ flag
       THEN [t EXCEPT !.surface.cx =
                [p \in Points |->
                    IF HasGeoFeature(p) THEN @[p]
                    ELSE Lerp(DotPlotX(p), 0, Clamp(progress))]]
       ELSE t

\* chart.setTransitionProgress(flag, progress) of whichever class this is
SetTransitionProgress(s, flag, progress) ==
    IF chart = "dotmap"
    THEN DotMapSetTransitionProgress(s, flag, progress)
    ELSE MapDotSetTransitionProgress(s, flag, progress)

----------------------------------------------------------------------------
(* Static renders: the attributes of the dots that setupDataPoints writes  *)
(* and that the 1000 ms transition of toggleView ends at                   *)

\* DotMapPlot: setupDataPoints and toggleView(false) draw the dot plot,
\* toggleView(true) the map
DotMapToggleView(isMap) ==
    IF isMap
    THEN [cx |-> [p \in Points |->
                    IF HasGeoFeature(p) THEN Exact(StrikeGeoX(p)) ELSE WeekX(p)],
          cy |-> [p \in Points |->
                    IF HasGeoFeature(p) THEN Exact(StrikeGeoY(p))
                    ELSE Exact(DotPlotY(p))],
          r |-> [p \in Points |-> Exact(25)],
          opacity |-> [p \in Points |->
                    IF HasGeoFeature(p) THEN Exact(33) ELSE Exact(0)]]
    ELSE [cx |-> [p \in Points |-> Exact(DotPlotX(p))],
          cy |-> [p \in Points |-> Exact(DotPlotY(p))],
          r |-> [p \in Points |-> Exact(25)],
          opacity |-> [p \in Points |-> Exact(100)]]

\* MapDotPlot: setupDataPoints and toggleView(false) draw the map,
\* toggleView(true) the scatter plot
MapDotToggleView(isScatter) ==
    IF isScatter
    THEN [cx |-> [p \in Points |-> Exact(ScatterX(p))],
          cy |-> [p \in Points |-> Exact(ScatterY(p))],
          r |-> [p \in Points |-> Exact(80)],
          fill |-> [p \in Points |-> TypeColor(DealType(p))],
          opacity |-> [p \in Points |-> Exact(100)]]
    ELSE [cx |-> [p \in Points |-> Exact(DealMapX(p))],
          cy |-> [p \in Points |-> Exact(DealMapY(p))],
          r |-> [p \in Points |-> Exact(60)],
          fill |-> [p \in Points |-> Gray59],
          opacity |-> [p \in Points |-> Exact(100)]]

----------------------------------------------------------------------------
(* Animation loop manager                                                  *)

\* requestAnimationFrame returns a handle that names no other live request.
\* Handles are only ever compared for identity, so the least handle that is
\* neither pending nor still held in rafId stands for the fresh one.
RequestAnimationFrame(s) ==
    CHOOSE k \in 1..(Cardinality(s.frames) + 2) :
        /\ k \notin s.frames
        /\ k # s.plot.rafId
        /\ \A j \in 1..(k - 1) : j \in s.frames \/ j = s.plot.rafId

UpdateScrollAnimation_NoGuard(s) ==
    LET id == RequestAnimationFrame(s) IN
    [s EXCEPT !.plot.rafId = id, !.frames = @ \cup {id}]

UpdateScrollAnimation_NoReschedule(s) ==
    IF ~s.plot.scrollAnimationActive \/ s.plot.currentTransitionCard = NoCard
    THEN s
    ELSE IF s.plot.transitionDirection = ForwardDirection
         THEN SetTransitionProgress(s, TRUE,
                  CalculateScrollProgress(s.plot.currentTransitionCard))
         ELSE SetTransitionProgress(s, FALSE,
                  CalculateScrollProgress(s.plot.currentTransitionCard))

UpdateScrollAnimation(s) ==
    IF ~s.plot.scrollAnimationActive \/ s.plot.currentTransitionCard = NoCard
    THEN s
    ELSE LET progress == CalculateScrollProgress(s.plot.currentTransitionCard)
             t == IF s.plot.transitionDirection = ForwardDirection
                  THEN SetTransitionProgress(s, TRUE, progress)
                  ELSE IF s.plot.transitionDirection = ReverseDirection
                       THEN SetTransitionProgress(s, FALSE, progress)
                       ELSE s
             id == RequestAnimationFrame(t)
         IN [t EXCEPT !.plot.rafId = id, !.frames = @ \cup {id}]

\* cancels the frame, forgets the anchor, leaves the flag on
StopScrollAnimation_KeepsActive(s) ==
    LET t == [s EXCEPT !.plot.currentTransitionCard = NoCard,
                       !.plot.transitionDirection = "null"]
    IN IF t.plot.rafId # NoFrame
       THEN [t EXCEPT !.frames = @ \ {t.plot.rafId}, !.plot.rafId = NoFrame]
       ELSE t

StopScrollAnimation_NoCancel(s) ==
    [s EXCEPT !.plot.scrollAnimationActive = FALSE,
              !.plot.currentTransitionCard = NoCard,
              !.plot.transitionDirection = "null",
              !.plot.rafId = NoFrame]

StopScrollAnimation_ResetsView(s) ==
    LET t == [s EXCEPT !.plot.scrollAnimationActive = FALSE,
                       !.plot.currentTransitionCard = NoCard,
                       !.plot.transitionDirection = "null",
                       !.plot.isMapView = FALSE,
                       !.plot.isScatterView = FALSE]
    IN IF t.plot.rafId # NoFrame
       THEN [t EXCEPT !.frames = @ \ {t.plot.rafId}, !.plot.rafId = NoFrame]
       ELSE t

StopScrollAnimation(s) ==
    LET t == [s EXCEPT !.plot.scrollAnimationActive = FALSE,
                       !.plot.currentTransitionCard = NoCard,
                       !.plot.transitionDirection = "null"]
    IN IF t.plot.rafId # NoFrame
       THEN [t EXCEPT !.frames = @ \ {t.plot.rafId}, !.plot.rafId = NoFrame]
       ELSE t

StartScrollAnimation_NoStop(s, card, direction) ==
    UpdateScrollAnimation(
        [s EXCEPT !.plot.scrollAnimationActive = TRUE,
                  !.plot.currentTransitionCard = card,
                  !.plot.transitionDirection = direction])

StartScrollAnimation_KeepsDirection(s, card, direction) ==
    LET t == StopScrollAnimation(s) IN
    UpdateScrollAnimation(
        [t EXCEPT !.plot.scrollAnimationActive = TRUE,
                  !.plot.currentTransitionCard = card,
                  !.plot.transitionDirection =
                      IF s.plot.transitionDirection = "null"
                      THEN direction ELSE s.plot.transitionDirection])

StartScrollAnimation(s, card, direction) ==
    LET t == StopScrollAnimation(s) IN
    UpdateScrollAnimation(
        [t EXCEPT !.plot.scrollAnimationActive = TRUE,
                  !.plot.currentTransitionCard = card,
                  !.plot.transitionDirection = direction])

----------------------------------------------------------------------------
(* Construction                                                            *)

InitPlot ==
    [isMapView |-> FALSE, isScatterView |-> FALSE, labelsVisible |-> FALSE,
     scrollAnimationActive |-> FALSE, currentTransitionCard |-> NoCard,
     transitionDirection |-> "null", rafId |-> NoFrame]

DotMapInitSurface ==
    [cx |-> [p \in Points |-> Exact(DotPlotX(p))],
     cy |-> [p \in Points |-> Exact(DotPlotY(p))],
     r |-> [p \in Points |-> Exact(25)],
     fill |-> [p \in Points |-> GrayC6],
     strokeWidth |-> Exact(25),
     opacity |-> [p \in Points |-> Exact(100)],
     axesOpacity |-> Exact(100),
     mapOpacity |-> Exact(0),
     legendOpacity |-> Exact(0),
     labelData |-> "none",
     dotsPointerEvents |-> "auto",
     countriesPointerEvents |-> "auto"]

MapDotInitSurface ==
    [cx |-> [p \in Points |-> Exact(DealMapX(p))],
     cy |-> [p \in Points |-> Exact(DealMapY(p))],
     r |-> [p \in Points |-> Exact(60)],
     fill |-> [p \in Points |-> Gray59],
     strokeWidth |-> Exact(50),
     opacity |-> [p \in Points |-> Exact(100)],
     axesOpacity |-> Exact(0),
     mapOpacity |-> Exact(100),
     legendOpacity |-> Exact(0),
     labelData |-> "none",
     dotsPointerEvents |-> "none",
     countriesPointerEvents |-> "auto"]

\* history record of an observer, frame, scroll or timer step
Op(name, card, direction) ==
    [op |-> name, card |-> card, direction |-> direction,
     repeated |-> FALSE, prevActive |-> FALSE, prevCard |-> NoCard,
     prevDirection |-> "null"]

\* history record of a direct method call: it also keeps whether the same
\* method was the previous call and what the loop was before the call
CallOp(name, card, direction) ==
    [op |-> name, card |-> card, direction |-> direction,
     repeated |-> (lastOp.op = name),
     prevActive |-> plot.scrollAnimationActive,
     prevCard |-> plot.currentTransitionCard,
     prevDirection |-> plot.transitionDirection]

\* no method has been called on its own
NoProbe ==
    [fn |-> "none", applied |-> FALSE, viewportHeight |-> ViewportHeight,
     top |-> 0, otherTop |-> 0, result |-> Num(0, 1), otherResult |-> Num(0, 1),
     flag |-> FALSE, progress |-> 0, cardHeight |-> 0]

\* the page after DOMContentLoaded and chart.init()
InitPage ==
    /\ chart \in {"dotmap", "mapdot"}
    /\ scrollY = 0
    /\ plot = InitPlot
    /\ surface = IF chart = "dotmap" THEN DotMapInitSurface ELSE MapDotInitSurface
    /\ frames = {}
    /\ dotsTransition = {}
    /\ activeStep = NoStep
    /\ lastOp = [op |-> "init", card |-> NoCard, direction |-> "null",
                 repeated |-> FALSE,
                 prevActive |-> FALSE, prevCard |-> NoCard,
                 prevDirection |-> "null"]
    /\ currentStep = 0

Init ==
    /\ InitPage
    /\ probe = NoProbe

----------------------------------------------------------------------------
(* Environment steps shared by both specifications                         *)

\* the reader scrolls: every card's bounding rectangle moves
Scroll ==
    /\ \E y \in 0..MaxScroll : y # scrollY /\ scrollY' = y
    /\ lastOp' = Op("scroll", NoCard, "null")
    /\ UNCHANGED <<chart, plot, surface, frames, dotsTransition, activeStep,
                 currentStep, probe>>

\* the browser runs a pending frame callback: () => this.updateScrollAnimation()
AnimationFrame ==
    \E id \in frames :
        /\ Commit(UpdateScrollAnimation([State EXCEPT !.frames = @ \ {id}]))
        /\ lastOp' = Op(IF plot.scrollAnimationActive
                           /\ plot.currentTransitionCard # NoCard
                        THEN "frame" ELSE "frameIdle", NoCard, "null")
        /\ UNCHANGED <<chart, scrollY, currentStep, probe>>

----------------------------------------------------------------------------
(* Specification of the controller's methods called in any order           *)

\* the cards handed to startScrollAnimation: the transition card and the next
ApiCards == {TransitionStep, TransitionStep + 1}

StartCall ==
    \E card \in ApiCards, direction \in Directions :
        /\ Commit(StartScrollAnimation(State, card, direction))
        /\ lastOp' = CallOp("start", card, direction)
        /\ UNCHANGED <<chart, scrollY, currentStep, probe>>

StopCall ==
    /\ Commit(StopScrollAnimation(State))
    /\ lastOp' = CallOp("stop", NoCard, "null")
    /\ UNCHANGED <<chart, scrollY, currentStep, probe>>

\* a frame callback that runs although the loop is stopped: the race the
\* guard at the head of updateScrollAnimation defends against
StaleFrameCallback ==
    /\ ~plot.scrollAnimationActive \/ plot.currentTransitionCard = NoCard
    /\ Commit(UpdateScrollAnimation(State))
    /\ lastOp' = CallOp("frameIdle", NoCard, "null")
    /\ UNCHANGED <<chart, scrollY, currentStep, probe>>

NextApi ==
    \/ StartCall
    \/ StopCall
    \/ StaleFrameCallback
    \/ AnimationFrame
    \/ Scroll

SpecApi == Init /\ [][NextApi]_vars

----------------------------------------------------------------------------
(* Specification of calculateScrollProgress called on its own: the window  *)
(* height and two card positions are drawn at the start                    *)

MaxViewportHeight == 10
MaxTopUnit == 24

\* window.innerHeight in px; 0 is the window without height
ViewportHeights == (0..MaxViewportHeight) \cup {1000}

\* rect.top in tenths of a px
Tops == {4 * k : k \in (-3)..MaxTopUnit} \cup {2000, 5000, 8000}

\* rect.height of the first card in tenths of a px; calculateScrollProgress
\* reads it and does not use it
MaxHeightUnit == 2
CardHeights == {4 * k : k \in 0..MaxHeightUnit}

InitCalc ==
    /\ InitPage
    /\ \E viewportHeight \in ViewportHeights, top \in Tops, otherTop \in Tops,
          cardHeight \in CardHeights :
           probe = [NoProbe EXCEPT !.fn = "calculateScrollProgress",
                                   !.viewportHeight = viewportHeight,
                                   !.top = top,
                                   !.otherTop = otherTop,
                                   !.cardHeight = cardHeight]

\* chart.calculateScrollProgress(card) for each of the two positions
CalculateScrollProgressCall ==
    /\ probe.fn = "calculateScrollProgress"
    /\ ~probe.applied
    /\ probe' = [probe EXCEPT
                    !.applied = TRUE,
                    !.result = ScrollProgress(probe.viewportHeight, probe.top),
                    !.otherResult =
                        ScrollProgress(probe.viewportHeight, probe.otherTop)]
    /\ UNCHANGED <<chart, scrollY, plot, surface, frames, dotsTransition,
                   activeStep, lastOp, currentStep>>

NextCalc == CalculateScrollProgressCall

SpecCalc == InitCalc /\ [][NextCalc]_vars

----------------------------------------------------------------------------
(* Specification of setTransitionProgress called on its own, with any      *)
(* direction flag and any progress argument, also outside [0,1]            *)

MaxOvershoot == 3

\* the progress argument as a numerator over ProgressDen
ProgressInputs == (-MaxOvershoot)..(ProgressDen + MaxOvershoot)

InitInterp ==
    /\ InitPage
    /\ probe = [NoProbe EXCEPT !.fn = "setTransitionProgress"]

SetTransitionProgressCall ==
    \E flag \in BOOLEAN, progress \in ProgressInputs :
        /\ Commit(SetTransitionProgress(State, flag, progress))
        /\ probe' = [probe EXCEPT !.applied = TRUE, !.flag = flag,
                                  !.progress = progress]
        /\ UNCHANGED <<chart, scrollY, lastOp, currentStep>>

NextInterp == SetTransitionProgressCall

SpecInterp == InitInterp /\ [][NextInterp]_vars

----------------------------------------------------------------------------
(* Step styling of the two classes                                         *)

\* DotMapPlot.updateColors(step): a 1000 ms transition of the dots' fill
UpdateColors(s, step) ==
    [s EXCEPT !.dotsTransition =
        {[fill |-> [p \in Points |->
            IF step = 0 THEN GrayC6
            ELSE IF step = 1
                 THEN (IF President(p) = "Biden" THEN Blue ELSE GrayC6)
            ELSE IF step = 2
                 THEN (IF President(p) = "Trump I" THEN Red ELSE GrayC6)
            ELSE IF step = 3
                 THEN (IF President(p) = "Trump II" THEN Red ELSE GrayC6)
            ELSE IF step = 4 \/ step = 5
                 THEN PresidentColor(President(p))
            ELSE IF Country(p) = "Yemen" \/ Country(p) = "Somalia"
                 THEN PresidentColor(President(p))
                 ELSE GrayC6]]}]

\* DotMapPlot.showCountryLabels(step): the labels are rebuilt for the step
\* (they then fade in; the fade itself is not followed)
ShowCountryLabels(s, step) ==
    [s EXCEPT !.surface.labelData = IF step >= 6 THEN "yemenSomalia" ELSE "all",
              !.plot.labelsVisible = TRUE]

\* leaves the labels as they are
HideCountryLabels_Keeps(s) == s

\* DotMapPlot.hideCountryLabels(): the labels fade out
HideCountryLabels(s) ==
    [s EXCEPT !.plot.labelsVisible = FALSE]

\* MapDotPlot.stepTypeMap[step]; "" stands for undefined
StepType(step) ==
    IF step = 3 THEN "Tariff and market access"
    ELSE IF step = 4 THEN "Economic security"
    ELSE IF step = 5 THEN "Buy/invest American"
    ELSE ""

\* MapDotPlot.highlightTypeByStep(step): a 400 ms transition of the dots'
\* opacity and radius; step = NoStep is the call with null
HighlightTypeByStep(s, step) ==
    LET activeType == StepType(step) IN
    IF activeType = ""
    THEN [s EXCEPT !.dotsTransition =
            {[opacity |-> [p \in Points |-> Exact(100)],
              r |-> [p \in Points |-> Exact(80)]]}]
    ELSE [s EXCEPT !.dotsTransition =
            {[opacity |-> [p \in Points |->
                  IF DealType(p) = activeType THEN Exact(100) ELSE Exact(15)],
              r |-> [p \in Points |->
                  IF DealType(p) = activeType THEN Exact(100) ELSE Exact(60)]]}]

----------------------------------------------------------------------------
(* Intersection observer callbacks, one entry at a time                    *)

\* entry.target gets class "active", every other card of the chart loses it
MakeActive(s, step) == [s EXCEPT !.activeStep = step]

DotmapObserverEntry(s, isIntersecting, step) ==
    IF ~isIntersecting THEN s
    ELSE
    LET a == MakeActive(s, step) IN
    IF step < 4
    THEN LET b == UpdateColors(StopScrollAnimation(a), step)
             c == IF b.plot.labelsVisible THEN HideCountryLabels(b) ELSE b
         IN IF c.plot.isMapView
            THEN [SetTransitionProgress(c, TRUE, Progress(0))
                     EXCEPT !.plot.isMapView = FALSE]
            ELSE c
    ELSE IF step = 4
    THEN LET b == UpdateColors(a, step)
             c == IF b.plot.labelsVisible THEN HideCountryLabels(b) ELSE b
         IN StartScrollAnimation(c, step, "toMap")
    ELSE LET b == UpdateColors(StopScrollAnimation(a), step)
             c == IF ~b.plot.isMapView
                  THEN [SetTransitionProgress(b, TRUE, Progress(1))
                           EXCEPT !.plot.isMapView = TRUE]
                  ELSE b
         IN ShowCountryLabels(c, step)

MapdotObserverEntry(s, isIntersecting, step) ==
    IF ~isIntersecting THEN s
    ELSE
    LET a == MakeActive(s, step) IN
    IF step < 2
    THEN LET b == StopScrollAnimation(a)
             c == IF b.plot.isScatterView
                  THEN [SetTransitionProgress(b, TRUE, Progress(0))
                           EXCEPT !.plot.isScatterView = FALSE]
                  ELSE b
         IN HighlightTypeByStep(c, NoStep)
    ELSE IF step = 2
    THEN StartScrollAnimation(a, step, "toScatter")
    ELSE LET b == StopScrollAnimation(a)
             c == IF ~b.plot.isScatterView
                  THEN [SetTransitionProgress(b, TRUE, Progress(1))
                           EXCEPT !.plot.isScatterView = TRUE]
                  ELSE b
         IN HighlightTypeByStep(c, step)

\* currentProgress > 0.5
SnapToDestination_TieCompletes(progress) == 2 * progress >= ProgressDen

SnapToDestination(progress) == 2 * progress > ProgressDen

\* the condition under which the cleanup observer acts on its entry
ExitApplies(s, isIntersecting, step) ==
    /\ step = TransitionStep
    /\ ~isIntersecting
    /\ s.plot.currentTransitionCard = step

\* acts on the exit of the step-4 card whatever the anchor is
DotmapStep4ObserverEntry_AnyAnchor(s, isIntersecting, step) ==
    IF ~(step = 4 /\ ~isIntersecting)
    THEN s
    ELSE LET a == StopScrollAnimation(s)
             currentProgress == CalculateScrollProgress(step)
         IN IF SnapToDestination(currentProgress)
            THEN [SetTransitionProgress(a, TRUE, Progress(1))
                     EXCEPT !.plot.isMapView = TRUE]
            ELSE [SetTransitionProgress(a, TRUE, Progress(0))
                     EXCEPT !.plot.isMapView = FALSE]

DotmapStep4ObserverEntry(s, isIntersecting, step) ==
    IF ~(step = 4 /\ ~isIntersecting /\ s.plot.currentTransitionCard = step)
    THEN s
    ELSE LET a == StopScrollAnimation(s)
             currentProgress == CalculateScrollProgress(step)
         IN IF SnapToDestination(currentProgress)
            THEN [SetTransitionProgress(a, TRUE, Progress(1))
                     EXCEPT !.plot.isMapView = TRUE]
            ELSE [SetTransitionProgress(a, TRUE, Progress(0))
                     EXCEPT !.plot.isMapView = FALSE]

MapdotStep2ObserverEntry(s, isIntersecting, step) ==
    IF ~(step = 2 /\ ~isIntersecting /\ s.plot.currentTransitionCard = step)
    THEN s
    ELSE LET a == StopScrollAnimation(s)
             currentProgress == CalculateScrollProgress(step)
         IN IF SnapToDestination(currentProgress)
            THEN [SetTransitionProgress(a, TRUE, Progress(1))
                     EXCEPT !.plot.isScatterView = TRUE]
            ELSE [SetTransitionProgress(a, TRUE, Progress(0))
                     EXCEPT !.plot.isScatterView = FALSE]

----------------------------------------------------------------------------
(* Specification of the page: the observers of main.js drive the chart     *)

DotmapObserver ==
    /\ chart = "dotmap"
    /\ \E isIntersecting \in BOOLEAN, step \in Steps :
        /\ Commit(DotmapObserverEntry(State, isIntersecting, step))
        /\ lastOp' = Op(IF isIntersecting THEN "step" ELSE "stepIgnored",
                        step, "null")
    /\ UNCHANGED <<chart, scrollY, currentStep, probe>>

\* only the step-4 card is observed by the cleanup observer
DotmapStep4Observer ==
    /\ chart = "dotmap"
    /\ \E isIntersecting \in BOOLEAN :
        /\ Commit(DotmapStep4ObserverEntry(State, isIntersecting, 4))
        /\ lastOp' = Op(IF ExitApplies(State, isIntersecting, 4) THEN "exit"
                        ELSE IF isIntersecting THEN "enterIgnored"
                        ELSE "exitIgnored", 4, "null")
    /\ UNCHANGED <<chart, scrollY, currentStep, probe>>

MapdotObserver ==
    /\ chart = "mapdot"
    /\ \E isIntersecting \in BOOLEAN, step \in Steps :
        /\ Commit(MapdotObserverEntry(State, isIntersecting, step))
        /\ lastOp' = Op(IF isIntersecting THEN "step" ELSE "stepIgnored",
                        step, "null")
    /\ UNCHANGED <<chart, scrollY, currentStep, probe>>

\* only the step-2 card is observed by the cleanup observer
MapdotStep2Observer ==
    /\ chart = "mapdot"
    /\ \E isIntersecting \in BOOLEAN :
        /\ Commit(MapdotStep2ObserverEntry(State, isIntersecting, 2))
        /\ lastOp' = Op(IF ExitApplies(State, isIntersecting, 2) THEN "exit"
                        ELSE IF isIntersecting THEN "enterIgnored"
                        ELSE "exitIgnored", 2, "null")
    /\ UNCHANGED <<chart, scrollY, currentStep, probe>>

\* the pending transition on the dots runs to its end and writes its targets
DotsTransitionEnd ==
    \E target \in dotsTransition :
        /\ surface' = IF chart = "dotmap"
                      THEN [surface EXCEPT !.fill = target.fill]
                      ELSE [surface EXCEPT !.opacity = target.opacity,
                                           !.r = target.r]
        /\ dotsTransition' = {}
        /\ lastOp' = Op("dotsTransitionEnd", NoCard, "null")
        /\ UNCHANGED <<chart, scrollY, plot, frames, activeStep, currentStep,
                     probe>>

Next ==
    \/ DotmapObserver
    \/ DotmapStep4Observer
    \/ MapdotObserver
    \/ MapdotStep2Observer
    \/ AnimationFrame
    \/ Scroll
    \/ DotsTransitionEnd

Spec == Init /\ [][Next]_vars

----------------------------------------------------------------------------
(* The page that tracks its current step: one observer per chart, each     *)
(* callback handling a whole batch of entries                              *)

\* intersectionRatio in hundredths, as reported when a threshold of
\* [0, 0.25, 0.5, 0.75, 1] is crossed: below the 0.3 of the switch, at it
\* and above it
Ratios == {25, 30, 50}

EntriesOf(step) ==
    {[step |-> step, isIntersecting |-> FALSE, intersectionRatio |-> 0]}
    \cup {[step |-> step, isIntersecting |-> TRUE, intersectionRatio |-> ratio] :
             ratio \in Ratios}

\* the cards whose entries are delivered: the transition card and the cards
\* next to it
MaxCardDistance == 1
TrackedSteps ==
    {step \in Steps : step >= TransitionStep - MaxCardDistance
                      /\ step <= TransitionStep + MaxCardDistance}

\* the batches delivered: one card, or two neighbouring cards in document order
Batches ==
    {<<e>> : e \in UNION {EntriesOf(step) : step \in TrackedSteps}}
    \cup UNION {{<<e1, e2>> : e1 \in EntriesOf(step), e2 \in EntriesOf(step + 1)} :
                 step \in {c \in TrackedSteps : c + 1 \in TrackedSteps}}

\* let mostVisible = null; let maxRatio = 0
NoEntry == [step |-> NoStep, isIntersecting |-> FALSE, intersectionRatio |-> 0]

RECURSIVE MostVisibleFrom(_, _, _)
MostVisibleFrom(entries, i, best) ==
    IF i > Len(entries) THEN best
    ELSE MostVisibleFrom(entries, i + 1,
             IF entries[i].isIntersecting
                /\ entries[i].intersectionRatio > best.intersectionRatio
             THEN entries[i] ELSE best)

MostVisible(entries) == MostVisibleFrom(entries, 1, NoEntry)

\* newStep !== currentDotmapStep && maxRatio > 0.3
Switches(newStep, current, maxRatio) == newStep # current /\ maxRatio > 30

\* the body of the switch, DotMapPlot page
TrackedDotmapStep(s, mostVisible) ==
    LET newStep == mostVisible.step
        a == MakeActive(s, newStep)
    IN
    IF newStep < 4
    THEN LET b == UpdateColors(StopScrollAnimation(a), newStep)
             c == IF b.plot.labelsVisible THEN HideCountryLabels(b) ELSE b
         IN IF c.plot.isMapView
            THEN [SetTransitionProgress(c, TRUE, Progress(0))
                     EXCEPT !.plot.isMapView = FALSE]
            ELSE c
    ELSE IF newStep = 4
    THEN LET b == UpdateColors(a, newStep)
             c == IF b.plot.labelsVisible THEN HideCountryLabels(b) ELSE b
         IN StartScrollAnimation(c, newStep, "toMap")
    ELSE LET b == UpdateColors(StopScrollAnimation(a), newStep)
             c == IF ~b.plot.isMapView
                  THEN [SetTransitionProgress(b, TRUE, Progress(1))
                           EXCEPT !.plot.isMapView = TRUE]
                  ELSE b
         IN ShowCountryLabels(c, newStep)

\* the body of the switch, MapDotPlot page
TrackedMapdotStep(s, mostVisible) ==
    LET newStep == mostVisible.step
        a == MakeActive(s, newStep)
    IN
    IF newStep < 2
    THEN LET b == StopScrollAnimation(a)
         IN IF b.plot.isScatterView
            THEN [SetTransitionProgress(b, TRUE, Progress(0))
                     EXCEPT !.plot.isScatterView = FALSE]
            ELSE b
    ELSE IF newStep = 2
    THEN StartScrollAnimation(a, newStep, "toScatter")
    ELSE LET b == StopScrollAnimation(a)
         IN IF ~b.plot.isScatterView
            THEN [SetTransitionProgress(b, TRUE, Progress(1))
                     EXCEPT !.plot.isScatterView = TRUE]
            ELSE b

\* the second forEach: the transition card that left the viewport while it
\* was the anchor stops the loop and snaps
TrackedExit(s, entry) ==
    IF ~(~entry.isIntersecting
         /\ entry.step = TransitionStep
         /\ s.plot.currentTransitionCard = entry.step)
    THEN s
    ELSE LET a == StopScrollAnimation(s)
             currentProgress == CalculateScrollProgress(entry.step)
             settled == SetTransitionProgress(a, TRUE,
                            IF SnapToDestination(currentProgress)
                            THEN Progress(1) ELSE Progress(0))
         IN IF chart = "dotmap"
            THEN [settled EXCEPT !.plot.isMapView =
                                     SnapToDestination(currentProgress)]
            ELSE [settled EXCEPT !.plot.isScatterView =
                                     SnapToDestination(currentProgress)]

RECURSIVE TrackedExitsFrom(_, _, _)
TrackedExitsFrom(s, entries, i) ==
    IF i > Len(entries) THEN s
    ELSE TrackedExitsFrom(TrackedExit(s, entries[i]), entries, i + 1)

\* one callback of the observer: the state and the current step it leaves
TrackedObserverCallback(s, current, entries) ==
    LET mostVisible == MostVisible(entries)
        switches == /\ mostVisible.step # NoStep
                    /\ Switches(mostVisible.step, current,
                                mostVisible.intersectionRatio)
        a == IF ~switches THEN s
             ELSE IF chart = "dotmap" THEN TrackedDotmapStep(s, mostVisible)
             ELSE TrackedMapdotStep(s, mostVisible)
    IN [state |-> TrackedExitsFrom(a, entries, 1),
        currentStep |-> IF switches THEN mostVisible.step ELSE current]

\* history record of a callback: the most visible card of its batch and
\* that card's ratio
BatchOp(entries) ==
    [op |-> "batch", card |-> MostVisible(entries).step, direction |-> "null",
     repeated |-> FALSE, prevActive |-> FALSE, prevCard |-> NoCard,
     prevDirection |-> "null",
     ratio |-> MostVisible(entries).intersectionRatio,
     otherRatio |->
         LET others == {0} \cup {entries[i].intersectionRatio :
                             i \in {j \in DOMAIN entries :
                                       /\ entries[j].isIntersecting
                                       /\ entries[j] # MostVisible(entries)}}
         IN CHOOSE ratio \in others : \A other \in others : other <= ratio]

TrackedObserver ==
    \E entries \in Batches :
        LET after == TrackedObserverCallback(State, currentStep, entries) IN
        /\ Commit(after.state)
        /\ currentStep' = after.currentStep
        /\ lastOp' = BatchOp(entries)
        /\ UNCHANGED <<chart, scrollY, probe>>

NextTracked ==
    \/ TrackedObserver
    \/ AnimationFrame
    \/ Scroll
    \/ DotsTransitionEnd

SpecTracked == Init /\ [][NextTracked]_vars

----------------------------------------------------------------------------
(* The page of main.js with whole callbacks: entries.forEach handles every *)
(* entry of the batch, in the order delivered                              *)

RECURSIVE DotmapObserverEntriesFrom(_, _, _)
DotmapObserverEntriesFrom(s, entries, i) ==
    IF i > Len(entries) THEN s
    ELSE DotmapObserverEntriesFrom(
             DotmapObserverEntry(s, entries[i].isIntersecting, entries[i].step),
             entries, i + 1)

RECURSIVE MapdotObserverEntriesFrom(_, _, _)
MapdotObserverEntriesFrom(s, entries, i) ==
    IF i > Len(entries) THEN s
    ELSE MapdotObserverEntriesFrom(
             MapdotObserverEntry(s, entries[i].isIntersecting, entries[i].step),
             entries, i + 1)

DotmapObserverCallback ==
    /\ chart = "dotmap"
    /\ \E entries \in Batches :
        /\ Commit(DotmapObserverEntriesFrom(State, entries, 1))
        /\ lastOp' = BatchOp(entries)
    /\ UNCHANGED <<chart, scrollY, currentStep, probe>>

MapdotObserverCallback ==
    /\ chart = "mapdot"
    /\ \E entries \in Batches :
        /\ Commit(MapdotObserverEntriesFrom(State, entries, 1))
        /\ lastOp' = BatchOp(entries)
    /\ UNCHANGED <<chart, scrollY, currentStep, probe>>

NextBatch ==
    \/ DotmapObserverCallback
    \/ DotmapStep4Observer
    \/ MapdotObserverCallback
    \/ MapdotStep2Observer
    \/ AnimationFrame
    \/ Scroll
    \/ DotsTransitionEnd

SpecBatch == Init /\ [][NextBatch]_vars

----------------------------------------------------------------------------
(* Vocabulary of the properties                                            *)

\* isMapView of a DotMapPlot, isScatterView of a MapDotPlot
ViewFlag(p) == IF chart = "dotmap" THEN p.isMapView ELSE p.isScatterView

\* the surface holds every attribute setTransitionProgress(flag, n) writes
SurfaceHolds(flag, n) ==
    surface = SetTransitionProgress(State, flag, n).surface

\* the attributes that only setTransitionProgress writes hold their values
\* for the forward transition at progress n
ViewAt(n) ==
    LET e == SetTransitionProgress(State, TRUE, n).surface IN
    /\ surface.cx = e.cx
    /\ surface.cy = e.cy
    /\ surface.mapOpacity = e.mapOpacity
    /\ surface.axesOpacity = e.axesOpacity
    /\ IF chart = "dotmap"
       THEN surface.r = e.r /\ surface.opacity = e.opacity
       ELSE surface.fill = e.fill /\ surface.legendOpacity = e.legendOpacity

\* progress of the anchor card at the present scroll position
AnchorProgress == CalculateScrollProgress(plot.currentTransitionCard)
TransitionCardProgress == CalculateScrollProgress(TransitionStep)

Intermediate(n) == 0 < n /\ n < ProgressDen

----------------------------------------------------------------------------
(* C1  Mutual exclusion of animation loops: whatever sequence of start,    *)
(* stop and frame callbacks has run, at most one frame callback is         *)
(* pending, and it is the one the controller holds in rafId; after a       *)
(* start the single loop is the one just started (its card, its            *)
(* direction), so no frame of an earlier loop is left to run.              *)
MutualExclusion ==
    /\ Cardinality(frames) <= 1
    /\ frames \subseteq {plot.rafId}
    /\ (frames # {} => plot.scrollAnimationActive)
    /\ (lastOp.op = "start" =>
           /\ plot.scrollAnimationActive
           /\ plot.currentTransitionCard = lastOp.card
           /\ plot.transitionDirection = lastOp.direction
           /\ Cardinality(frames) = 1)

\* start(B, d2) right after start(A, d1), with A # B and d1 # d2
MutualExclusionWitness ==
    /\ lastOp.op = "start"
    /\ lastOp.repeated
    /\ lastOp.prevActive
    /\ lastOp.prevCard # lastOp.card
    /\ lastOp.prevDirection # lastOp.direction
    /\ plot.currentTransitionCard = lastOp.card

----------------------------------------------------------------------------
(* C2  Settled-state invariant: whenever the scroll animation is not       *)
(* active, the surface is at the progress 0 or the progress 1 endpoint of  *)
(* setTransitionProgress, never in between.                                *)
SettledAtEndpoint ==
    ~plot.scrollAnimationActive => (ViewAt(Progress(0)) \/ ViewAt(Progress(1)))

----------------------------------------------------------------------------
(* C3  Instant snap: right after the handler of a non-transition step, the *)
(* animation is stopped and the surface is at the endpoint of the view the *)
(* step requires (origin view below the transition step, destination view  *)
(* above it).                                                              *)
StepSnapsToRequiredView ==
    (lastOp.op = "step" /\ lastOp.card # TransitionStep) =>
        /\ ~plot.scrollAnimationActive
        /\ IF lastOp.card < TransitionStep
           THEN ViewAt(Progress(0))
           ELSE ViewAt(Progress(1))

----------------------------------------------------------------------------
(* C4  Boundary snap rule: right after the exit handler has acted, the     *)
(* animation is stopped and, with p the progress of the transition card at *)
(* that moment, p > 0.5 gives the exact progress 1 endpoint and the        *)
(* destination view flag, p <= 0.5 the exact progress 0 endpoint and the   *)
(* origin view flag.                                                       *)
BoundarySnapRule ==
    lastOp.op = "exit" =>
        /\ ~plot.scrollAnimationActive
        /\ IF 2 * TransitionCardProgress > ProgressDen
           THEN SurfaceHolds(TRUE, Progress(1)) /\ ViewFlag(plot)
           ELSE SurfaceHolds(TRUE, Progress(0)) /\ ~ViewFlag(plot)

\* the exit handler acted with the card at exactly half way, and reverted
BoundarySnapTieWitness ==
    /\ lastOp.op = "exit"
    /\ 2 * TransitionCardProgress = ProgressDen
    /\ ~ViewFlag(plot)
    /\ ViewAt(Progress(0))

----------------------------------------------------------------------------
(* C5  startScrollAnimation(card, direction): on return the loop is        *)
(* active, anchored to card with the given direction, and exactly one      *)
(* frame is pending, the one requested by this call.                       *)
StartPostcondition ==
    lastOp.op = "start" =>
        /\ plot.scrollAnimationActive = TRUE
        /\ plot.currentTransitionCard = lastOp.card
        /\ plot.transitionDirection = lastOp.direction
        /\ plot.rafId # NoFrame
        /\ frames = {plot.rafId}

\* start was called while another loop, in the other direction, had a frame
\* pending
StartPostconditionWitness ==
    /\ lastOp.op = "start"
    /\ lastOp.prevActive
    /\ lastOp.prevDirection # lastOp.direction
    /\ frames = {plot.rafId}

----------------------------------------------------------------------------
(* C6  stopScrollAnimation: on return the loop is inactive, anchor and     *)
(* direction are null and no frame of this chart's loop is pending.        *)
StopPostcondition ==
    lastOp.op = "stop" =>
        /\ plot.scrollAnimationActive = FALSE
        /\ plot.currentTransitionCard = NoCard
        /\ plot.transitionDirection = "null"
        /\ plot.rafId = NoFrame
        /\ frames = {}

\* stop was called on a running loop
StopPostconditionWitness ==
    /\ lastOp.op = "stop"
    /\ lastOp.prevActive
    /\ lastOp.prevCard # NoCard

----------------------------------------------------------------------------
(* C7  Idempotent stop: stopScrollAnimation never changes the view flag or *)
(* a surface attribute, and called on a stopped controller (twice in a     *)
(* row, or never started) it changes nothing at all.                       *)
IdempotentStop ==
    [][lastOp'.op = "stop" =>
          /\ surface' = surface
          /\ plot'.isMapView = plot.isMapView
          /\ plot'.isScatterView = plot.isScatterView
          /\ (~plot.scrollAnimationActive =>
                 /\ plot' = plot
                 /\ frames' = frames
                 /\ dotsTransition' = dotsTransition
                 /\ activeStep' = activeStep)]_vars

\* stop called twice in a row, the chart resting in a settled view
IdempotentStopWitness ==
    /\ lastOp.op = "stop"
    /\ lastOp.repeated
    /\ ~lastOp.prevActive
    /\ ~plot.scrollAnimationActive

----------------------------------------------------------------------------
(* C8  A frame callback that runs while the loop is inactive or has no     *)
(* anchor changes no field of the controller and no surface attribute and  *)
(* schedules no further frame.                                             *)
IdleFrameDoesNothing ==
    [][lastOp'.op = "frameIdle" =>
          /\ plot' = plot
          /\ surface' = surface
          /\ frames' \subseteq frames
          /\ dotsTransition' = dotsTransition]_vars

\* a frame callback ran on a stopped controller
IdleFrameWitness ==
    /\ lastOp.op = "frameIdle"
    /\ ~plot.scrollAnimationActive
    /\ plot.currentTransitionCard = NoCard
    /\ frames = {}

----------------------------------------------------------------------------
(* C9  While the loop is active every frame callback applies the progress  *)
(* of the anchor card, in the recorded direction, and schedules exactly    *)
(* one next frame: an active loop always has its next frame pending, and   *)
(* right after a frame the surface shows the anchor's present position.    *)
ActiveLoopTracksAnchor ==
    /\ (plot.scrollAnimationActive =>
           plot.rafId # NoFrame /\ frames = {plot.rafId})
    /\ (lastOp.op = "frame" =>
           /\ plot.scrollAnimationActive
           /\ SurfaceHolds(plot.transitionDirection = ForwardDirection,
                           AnchorProgress))

\* a frame ran with the anchor part of the way through the scroll window
ActiveLoopWitness ==
    /\ lastOp.op = "frame"
    /\ Intermediate(AnchorProgress)
    /\ Cardinality(frames) = 1

----------------------------------------------------------------------------
(* C10  Cancellation by stop is complete: while the loop is stopped no     *)
(* frame of it is pending, and a frame callback that runs all the same     *)
(* changes neither a surface attribute nor the view flag.                  *)
CancellationComplete ==
    /\ [](~plot.scrollAnimationActive => frames = {})
    /\ [][(~plot.scrollAnimationActive
             /\ lastOp'.op \in {"frame", "frameIdle"}) =>
            /\ surface' = surface
            /\ ViewFlag(plot') = ViewFlag(plot)]_vars

\* a loop was stopped part of the way through, and a late frame callback
\* then left the surface as the stop had left it
CancellationWitness ==
    /\ lastOp.op = "frameIdle"
    /\ ~lastOp.prevActive
    /\ frames = {}
    /\ \E n \in 1..(ProgressDen - 1) : SurfaceHolds(TRUE, n)

----------------------------------------------------------------------------
(* Vocabulary of the properties of calculateScrollProgress                 *)

Calculated == probe.fn = "calculateScrollProgress" /\ probe.applied

IsNumber(x) == x.kind = "num"
IsZero(x) == x.kind = "num" /\ x.n = 0
IsOne(x) == x.kind = "num" /\ x.n = x.d

\* x <= y for two numbers
LessEq(x, y) == x.n * y.d <= y.n * x.d

\* x = n / d for a number x
EqualsFraction(x, n, d) == x.kind = "num" /\ x.n * d = n * x.d

----------------------------------------------------------------------------
(* C11  calculateScrollProgress, for a window of positive height H and a   *)
(* card at top: the result is a number in [0,1]; it is 0 when              *)
(* (0.8H - top) / (0.6H) is negative, 1 when that quotient exceeds 1, and  *)
(* the quotient itself otherwise.  With H = 1000: top 800 gives 0, top 200 *)
(* gives 1, top 500 gives 1/2.                                             *)
ProgressFormula ==
    (Calculated /\ probe.viewportHeight > 0) =>
        LET h == probe.viewportHeight
            result == probe.result
        IN /\ IsNumber(result)
           /\ 0 <= result.n /\ result.n <= result.d
           /\ IF 8 * h - probe.top < 0 THEN IsZero(result)
              ELSE IF 8 * h - probe.top > 6 * h THEN IsOne(result)
              ELSE EqualsFraction(result, 8 * h - probe.top, 6 * h)
           /\ (h = 1000 /\ probe.top = 8000 => IsZero(result))
           /\ (h = 1000 /\ probe.top = 2000 => IsOne(result))
           /\ (h = 1000 /\ probe.top = 5000 => EqualsFraction(result, 1, 2))

\* the call with H = 1000 and top = 500 returned one half
ProgressFormulaWitness ==
    /\ Calculated
    /\ probe.viewportHeight = 1000
    /\ probe.top = 5000
    /\ EqualsFraction(probe.result, 1, 2)

----------------------------------------------------------------------------
(* C12  Progress monotonicity: for one positive window height, a card      *)
(* higher up the window never has the smaller progress; the progress is    *)
(* exactly 0 from the start line (0.8H) down and exactly 1 from the end    *)
(* line (0.2H) up.                                                         *)
ProgressMonotone ==
    (Calculated /\ probe.viewportHeight > 0) =>
        /\ (probe.top >= probe.otherTop =>
               LessEq(probe.result, probe.otherResult))
        /\ (probe.top >= 8 * probe.viewportHeight => IsZero(probe.result))
        /\ (probe.top <= 2 * probe.viewportHeight => IsOne(probe.result))

\* two cards inside the scroll window, the lower one strictly behind
ProgressMonotoneWitness ==
    /\ Calculated
    /\ probe.viewportHeight > 0
    /\ probe.top > probe.otherTop
    /\ ~IsZero(probe.result)
    /\ ~IsOne(probe.otherResult)
    /\ ~LessEq(probe.otherResult, probe.result)

----------------------------------------------------------------------------
(* C13  Degenerate viewport: for a window of height 0 the result of        *)
(* calculateScrollProgress is a number, 0 or 1, never NaN.                 *)
DegenerateViewportGuard ==
    (Calculated /\ probe.viewportHeight = 0) =>
        /\ IsNumber(probe.result)
        /\ IsZero(probe.result) \/ IsOne(probe.result)

----------------------------------------------------------------------------
(* Vocabulary of the properties of setTransitionProgress                   *)

\* setTransitionProgress was the last call, with probe.flag, probe.progress
Interpolated == probe.fn = "setTransitionProgress" /\ probe.applied

\* toggleView(view) of whichever class this is
ToggleView(view) ==
    IF chart = "dotmap" THEN DotMapToggleView(view) ELSE MapDotToggleView(view)

\* position, radius, fill and opacity of every dot are those of the render
DotsDrawnAs(render) ==
    /\ surface.cx = render.cx
    /\ surface.cy = render.cy
    /\ surface.r = render.r
    /\ surface.opacity = render.opacity
    /\ (chart = "mapdot" => surface.fill = render.fill)

PointsWithoutFeature == {p \in Points : ~HasGeoFeature(p)}

----------------------------------------------------------------------------
(* C14  Endpoint exactness: after setTransitionProgress at progress 0 or 1 *)
(* every dot has the position, radius, fill and opacity of the static      *)
(* render (setupDataPoints / toggleView) of the view that endpoint stands  *)
(* for: the destination view for (forward, 1) and (reverse, 0), the origin *)
(* view for (forward, 0) and (reverse, 1).                                 *)
EndpointExactness ==
    (Interpolated /\ probe.progress \in {0, ProgressDen}) =>
        DotsDrawnAs(ToggleView(probe.flag <=> (probe.progress = ProgressDen)))

----------------------------------------------------------------------------
(* C15  Direction mirroring: after setTransitionProgress in the reverse    *)
(* direction at progress p in [0,1], position, radius, fill and opacity of *)
(* every dot and the opacities of the map, axes and legend groups are      *)
(* those the forward direction writes at 1 - p.                            *)
DirectionMirroring ==
    (Interpolated /\ ~probe.flag /\ probe.progress \in 0..ProgressDen) =>
        LET forward == SetTransitionProgress(State, TRUE,
                           ProgressDen - probe.progress).surface
        IN /\ surface.cx = forward.cx
           /\ surface.cy = forward.cy
           /\ surface.r = forward.r
           /\ surface.fill = forward.fill
           /\ surface.opacity = forward.opacity
           /\ surface.mapOpacity = forward.mapOpacity
           /\ surface.axesOpacity = forward.axesOpacity
           /\ surface.legendOpacity = forward.legendOpacity

\* a reverse call a third of the way, the overlays unequal
DirectionMirroringWitness ==
    /\ Interpolated
    /\ ~probe.flag
    /\ 3 * probe.progress = ProgressDen
    /\ surface.axesOpacity = 100 * probe.progress
    /\ surface.mapOpacity = 100 * (ProgressDen - probe.progress)

----------------------------------------------------------------------------
(* C16  A strike without geographic feature, DotMapPlot toward the dot     *)
(* plot: its opacity is exactly 0 at progress 0, exactly 1 at progress 1,  *)
(* and within [0,1] for every progress argument, also one outside [0,1].   *)
NoFeatureFadesIn ==
    (Interpolated /\ chart = "dotmap" /\ ~probe.flag) =>
        \A p \in PointsWithoutFeature :
            /\ 0 <= surface.opacity[p] /\ surface.opacity[p] <= Exact(100)
            /\ (probe.progress = 0 => surface.opacity[p] = Exact(0))
            /\ (probe.progress = ProgressDen => surface.opacity[p] = Exact(100))

\* the call with a progress argument above 1
NoFeatureFadesInWitness ==
    /\ Interpolated
    /\ chart = "dotmap"
    /\ ~probe.flag
    /\ probe.progress > ProgressDen
    /\ \E p \in PointsWithoutFeature : surface.opacity[p] = Exact(100)

----------------------------------------------------------------------------
(* C17  A strike without geographic feature, DotMapPlot toward the map:    *)
(* at every progress it keeps its dot-plot position, and at progress 1 its *)
(* opacity is exactly 0.                                                   *)
NoFeatureKeepsPosition ==
    (Interpolated /\ chart = "dotmap" /\ probe.flag) =>
        \A p \in PointsWithoutFeature :
            /\ surface.cx[p] = Exact(DotPlotX(p))
            /\ surface.cy[p] = Exact(DotPlotY(p))
            /\ (probe.progress >= ProgressDen => surface.opacity[p] = Exact(0))

\* half way to the map: the strike is half faded, where it was
NoFeatureKeepsPositionWitness ==
    /\ Interpolated
    /\ chart = "dotmap"
    /\ probe.flag
    /\ 2 * probe.progress = ProgressDen
    /\ \E p \in PointsWithoutFeature :
           /\ surface.opacity[p] = Exact(50)
           /\ surface.cx[p] = Exact(DotPlotX(p))

----------------------------------------------------------------------------
(* C18  Complementary overlays: in every state of the page the opacities   *)
(* of the map group and of the axes group sum to 1; right after a frame of *)
(* the loop the overlay of the destination view has the anchor's progress  *)
(* as its opacity and the overlay of the origin view the rest.             *)
DestinationOverlayOpacity ==
    IF chart = "dotmap" THEN surface.mapOpacity ELSE surface.axesOpacity

OriginOverlayOpacity ==
    IF chart = "dotmap" THEN surface.axesOpacity ELSE surface.mapOpacity

ComplementaryOverlays ==
    /\ surface.mapOpacity + surface.axesOpacity = Exact(100)
    /\ (lastOp.op = "frame" =>
           /\ DestinationOverlayOpacity = 100 * AnchorProgress
           /\ OriginOverlayOpacity = 100 * (ProgressDen - AnchorProgress))

\* a frame a third of the way: the overlays are unequal and both visible
ComplementaryOverlaysWitness ==
    /\ lastOp.op = "frame"
    /\ 3 * AnchorProgress = ProgressDen
    /\ DestinationOverlayOpacity = 100 * AnchorProgress
    /\ OriginOverlayOpacity = 2 * DestinationOverlayOpacity

----------------------------------------------------------------------------
(* C19  Pointer events follow the dominant layer: in every state of a      *)
(* MapDotPlot page the trade dots take pointer events exactly when the     *)
(* axes overlay is more than half opaque, and the country shapes exactly   *)
(* when the map overlay is.                                                *)
PointerEventsMatchDominantLayer ==
    chart = "mapdot" =>
        /\ (surface.dotsPointerEvents = "auto"
              <=> 2 * surface.axesOpacity > Exact(100))
        /\ (surface.countriesPointerEvents = "auto"
              <=> 2 * surface.mapOpacity > Exact(100))

----------------------------------------------------------------------------
(* C20  Transition creation: right after a callback of the tracking page   *)
(* whose most visible card is the transition card, with a ratio above the  *)
(* threshold, the scroll animation is active and anchored to that card.    *)
TransitionCreated ==
    (lastOp.op = "batch" /\ lastOp.card = TransitionStep /\ lastOp.ratio > 30)
        => /\ plot.scrollAnimationActive
           /\ plot.currentTransitionCard = TransitionStep

----------------------------------------------------------------------------
(* C21  Reset on completion: once a frame of the loop has applied progress *)
(* 1 the transition is complete, and the loop is no longer active.         *)
ResetOnCompletion ==
    (lastOp.op = "frame" /\ TransitionCardProgress = Progress(1))
        => ~plot.scrollAnimationActive

----------------------------------------------------------------------------
(* C22  Hysteresis of the tracking page: a callback whose most visible     *)
(* card carries a step other than the current one switches to that step    *)
(* when the card's ratio is at least 0.3; when the ratio is below 0.3 the   *)
(* current step, the active card, the loop and the dots stay as they were. *)
Hysteresis ==
    [][(lastOp'.op = "batch" /\ lastOp'.card # NoStep
          /\ lastOp'.card # currentStep) =>
          IF lastOp'.ratio >= 30
          THEN currentStep' = lastOp'.card /\ activeStep' = lastOp'.card
          ELSE /\ currentStep' = currentStep
               /\ activeStep' = activeStep
               /\ plot'.scrollAnimationActive = plot.scrollAnimationActive
                     \/ ~plot'.scrollAnimationActive
               /\ dotsTransition' = dotsTransition]_vars

----------------------------------------------------------------------------
(* C23  Single selection: a callback acts on at most one card of its       *)
(* batch, the most visible intersecting one; after the callback the active *)
(* card is that card, or the card that was active before, never a less     *)
(* visible card of the batch.                                              *)
SingleSelection ==
    [][(lastOp'.op = "batch" /\ lastOp'.otherRatio < lastOp'.ratio)
          => activeStep' \in {activeStep, lastOp'.card}]_vars

----------------------------------------------------------------------------
(* C24  Exclusive writer: after a callback that wrote the dots directly    *)
(* (the entry of a card other than the transition card, or the exit of the *)
(* transition card) the loop is not active and no frame of it is pending.  *)
DirectUpdate ==
    \/ lastOp.op = "exit"
    \/ lastOp.op = "step" /\ lastOp.card # TransitionStep

ExclusiveWriter ==
    DirectUpdate => ~plot.scrollAnimationActive /\ frames = {}
                    /\ plot.rafId = NoFrame

\* the transition card has left while the loop was on it: the loop was
\* stopped and the dots were snapped to an endpoint
ExclusiveWriterWitness ==
    /\ lastOp.op = "exit"
    /\ frames = {}
    /\ ~plot.scrollAnimationActive
    /\ ViewAt(Progress(0)) \/ ViewAt(Progress(1))

----------------------------------------------------------------------------
(* C25  No overlapping writers on MapDotPlot: when the loop (on its start  *)
(* or in a frame) or the snap of the exit has written the radius and the   *)
(* opacity of the dots, no timed transition started by                     *)
(* highlightTypeByStep is still running on them.                           *)
LoopOrSnapWrote ==
    \/ lastOp.op = "frame"
    \/ lastOp.op = "exit"
    \/ lastOp.op = "step" /\ lastOp.card = TransitionStep

NoOverlappingWriters ==
    (chart = "mapdot" /\ LoopOrSnapWrote) => dotsTransition = {}

----------------------------------------------------------------------------
(* C26  While the loop is active the card selected last is the transition  *)
(* card and the loop is anchored to it; the selection of any other card    *)
(* leaves the loop inactive.                                               *)
ActiveOnlyOnTransitionStep ==
    /\ plot.scrollAnimationActive =>
           /\ activeStep = TransitionStep
           /\ plot.currentTransitionCard = TransitionStep
    /\ (lastOp.op = "step" /\ lastOp.card # TransitionStep) =>
           ~plot.scrollAnimationActive

\* a frame of the loop has run while the transition card is the selected one
ActiveOnlyOnTransitionStepWitness ==
    /\ plot.scrollAnimationActive
    /\ lastOp.op = "frame"
    /\ activeStep = TransitionStep
    /\ plot.currentTransitionCard = TransitionStep
    /\ Intermediate(TransitionCardProgress)

----------------------------------------------------------------------------
(* C27  On MapDotPlot, while no loop is active, isScatterView tells where  *)
(* the dots are: it is true exactly when they are drawn at the scatter     *)
(* endpoint and false exactly when they are drawn at the map endpoint.     *)
ViewFlagAgreesWithSurface ==
    (chart = "mapdot" /\ ~plot.scrollAnimationActive) =>
        /\ plot.isScatterView <=> ViewAt(Progress(1))
        /\ ~plot.isScatterView <=> ViewAt(Progress(0))

----------------------------------------------------------------------------
(* C28  For a window with a height and a card that does not intersect the  *)
(* viewport, the progress calculated is exactly 0 or exactly 1: 0 for a    *)
(* card whose top is at or below the bottom of the viewport, 1 for a card  *)
(* whose bottom is at or above the top of the viewport.                    *)
BelowViewport == probe.top >= 10 * probe.viewportHeight
AboveViewport == probe.top + probe.cardHeight <= 0

OffscreenProgressIsEndpoint ==
    (Calculated /\ probe.viewportHeight > 0) =>
        /\ BelowViewport => IsZero(probe.result)
        /\ AboveViewport => IsOne(probe.result)

\* a card with a height that has left through the top of the window
OffscreenProgressIsEndpointWitness ==
    /\ Calculated
    /\ probe.viewportHeight > 0
    /\ probe.cardHeight > 0
    /\ probe.top < 0
    /\ AboveViewport
    /\ IsOne(probe.result)

----------------------------------------------------------------------------
(* C29  The exit of a card that is not the anchor of a transition changes  *)
(* nothing: the view flags, the animation state, the active card, the      *)
(* pending frames and what is drawn are as before the callback.            *)
NonAnchorExit(op) == op.op = "exitIgnored" \/ op.op = "stepIgnored"

NonAnchorExitIsNoOp ==
    [][NonAnchorExit(lastOp') =>
          /\ plot' = plot
          /\ surface' = surface
          /\ frames' = frames
          /\ dotsTransition' = dotsTransition
          /\ activeStep' = activeStep]_vars

\* the transition card leaves after a later card has been selected and has
\* stopped the loop: the dots stay at the destination
NonAnchorExitIsNoOpWitness ==
    /\ lastOp.op = "exitIgnored"
    /\ lastOp.card = TransitionStep
    /\ activeStep > TransitionStep
    /\ plot.currentTransitionCard = NoCard
    /\ ~plot.scrollAnimationActive
    /\ ViewAt(Progress(1))
    /\ TransitionCardProgress = Progress(0)

----------------------------------------------------------------------------
(* C30  On DotMapPlot driven by the dotmap observers, the country labels   *)
(* are visible only in the map view and only while no loop is active.      *)
LabelsOnlyOnStaticMap ==
    (chart = "dotmap" /\ plot.labelsVisible) =>
        plot.isMapView /\ ~plot.scrollAnimationActive

\* a card after the transition card is selected and the labels are shown
LabelsOnlyOnStaticMapWitness ==
    /\ chart = "dotmap"
    /\ plot.labelsVisible
    /\ lastOp.op = "step"
    /\ lastOp.card > TransitionStep
    /\ plot.isMapView
    /\ ~plot.scrollAnimationActive
    /\ frames = {}

====
